---------------------------- MODULE Spec2Model ----------------------------
(***************************************************************************)
(* A model of the ray tracer's geometric core: Intersection and its        *)
(* ordering (shape.rs), Sphere::ray_intersect (sphere.rs),                 *)
(* Plane::ray_intersect (plane.rs) and Scene (scene.rs).                   *)
(*                                                                         *)
(* Numbers.  An f32 is modelled as an exact rational <<n, d>> in lowest    *)
(* terms with d > 0, or as NaN == <<0, 0>>.  Arithmetic is exact; the only *)
(* rounding is in sqrt, which is rounded to the nearest multiple of        *)
(* 1 / (d * SqrtRes) and is exact on perfect squares.                      *)
(*                                                                         *)
(* Units.  All lengths of a state (positions, radii, direction and normal  *)
(* components) are held in grid steps, `unit` grid steps making one unit   *)
(* of length of the program: the program's value is the model's value      *)
(* divided by unit (lengths) or by unit^2 (squared lengths, dot products). *)
(* unit = 1 is the ordinary scale; unit = 1000 and 3000 put the scene at   *)
(* the scale of the source's epsilons, whose literals are converted to     *)
(* grid units where the code compares them (Len2).                         *)
(***************************************************************************)
EXTENDS Integers, Sequences, FiniteSets, TLC

VARIABLES
    unit,                  \* grid steps per unit of length (fixed per run)
    spheres,               \* Scene.spheres : Vec<(usize, Sphere)>
    planes,                \* Scene.planes : Vec<(usize, Plane)>
    materials,             \* Scene.materials : Vec<Material>
    point_lights,          \* Scene.point_lights : Vec<PointLight>
    sphere_lights,         \* Scene.sphere_lights : Vec<SphereLight>
    sphere_light_samples,  \* Scene.sphere_light_samples : u32
    calls,                 \* history of the add_sphere/add_plane calls and their results
    arg,                   \* the inputs of the call under test
    last,                  \* the record of the last call made
    rng,                   \* the state of the caller's random number generator
    camera                 \* the Camera the caller holds

vars == <<unit, spheres, planes, materials, point_lights, sphere_lights,
          sphere_light_samples, calls, arg, last, rng, camera>>

scene_vars == <<spheres, planes, materials, point_lights, sphere_lights,
                sphere_light_samples, calls>>

---------------------------------------------------------------------------
(* Bounds of the model *)

\* sqrt is rounded to the nearest multiple of 1 / (d * SqrtRes)
SqrtRes == 8

\* coordinates of ray origins and sphere centers range over -MaxCoord..MaxCoord
MaxCoord == 1

\* at most MaxAdds add_* calls build a scene
MaxAdds == 3

\* the shading arithmetic (powf, the contribution of a light sample) is rounded
\* to the nearest multiple of 1 / ShadeRes
ShadeRes == 512

\* the shapes and the lights of the scenes that are rendered
MaxShapes == 2

MaxLights == 2

\* Camera::render is modelled for images of at most MaxPixels pixels
MaxPixels == 4

---------------------------------------------------------------------------
(* f32 as exact rationals *)

NaN == <<0, 0>>

IsNaN(x) == x[2] = 0

Abs(i) == IF i < 0 THEN -i ELSE i

RECURSIVE Gcd(_, _)
Gcd(a, b) == IF b = 0 THEN a ELSE Gcd(b, a % b)

\* n / d in lowest terms; x / 0 only arises as 0. / 0. in the model's domain
Rat(n, d) ==
    IF d = 0 THEN NaN
    ELSE IF d = 1 THEN <<n, 1>>
    ELSE LET g == Gcd(Abs(n), Abs(d))
             s == IF d < 0 THEN -1 ELSE 1
         IN  <<s * (n \div g), s * (d \div g)>>

I(n) == <<n, 1>>

Zero == I(0)

RAdd(x, y) ==
    IF IsNaN(x) \/ IsNaN(y) THEN NaN
    ELSE IF x[2] = y[2] THEN Rat(x[1] + y[1], x[2])
    ELSE LET g == Gcd(x[2], y[2])
         IN  Rat(x[1] * (y[2] \div g) + y[1] * (x[2] \div g), (x[2] \div g) * y[2])

RNeg(x) == IF IsNaN(x) THEN NaN ELSE <<-x[1], x[2]>>

RSub(x, y) == RAdd(x, RNeg(y))

RMul(x, y) ==
    IF IsNaN(x) \/ IsNaN(y) THEN NaN
    ELSE IF x[2] = 1 /\ y[2] = 1 THEN <<x[1] * y[1], 1>>
    ELSE LET g1 == Gcd(Abs(x[1]), y[2])
             g2 == Gcd(Abs(y[1]), x[2])
         IN  Rat((x[1] \div g1) * (y[1] \div g2), (x[2] \div g2) * (y[2] \div g1))

\* x / y; a finite non-zero x over 0. (an infinity) does not arise in the model's domain
RDiv(x, y) ==
    IF IsNaN(x) \/ IsNaN(y) \/ y[1] = 0 THEN NaN
    ELSE RMul(x, Rat(y[2], y[1]))

\* a/b against c/d for a, c >= 0 and b, d > 0, by continued fractions (no products)
RECURSIVE CmpPos(_, _, _, _)
CmpPos(a, b, c, d) ==
    LET qa == a \div b
        qc == c \div d
        ra == a % b
        rc == c % d
    IN  IF qa # qc THEN (IF qa < qc THEN -1 ELSE 1)
        ELSE IF ra = 0 /\ rc = 0 THEN 0
        ELSE IF ra = 0 THEN -1
        ELSE IF rc = 0 THEN 1
        ELSE CmpPos(d, rc, b, ra)

\* -1, 0, 1 as x < y, x = y, x > y (x, y not NaN)
RCmp(x, y) ==
    IF x[2] = y[2] THEN (IF x[1] < y[1] THEN -1 ELSE IF x[1] = y[1] THEN 0 ELSE 1)
    ELSE IF x[1] < 0 /\ y[1] >= 0 THEN -1
    ELSE IF x[1] >= 0 /\ y[1] < 0 THEN 1
    ELSE IF x[1] < 0 THEN CmpPos(-y[1], y[2], -x[1], x[2])
    ELSE CmpPos(x[1], x[2], y[1], y[2])

\* the f32 comparisons: every comparison with a NaN is false
RLt(x, y) == ~IsNaN(x) /\ ~IsNaN(y) /\ RCmp(x, y) < 0
RLe(x, y) == ~IsNaN(x) /\ ~IsNaN(y) /\ RCmp(x, y) <= 0
RGt(x, y) == RLt(y, x)
RGe(x, y) == RLe(y, x)
REq(x, y) == ~IsNaN(x) /\ ~IsNaN(y) /\ x = y

\* floor of the square root of a natural number
RECURSIVE Isqrt(_)
Isqrt(n) ==
    LET h == IF n < 256 THEN 0 ELSE 16 * Isqrt(n \div 256)
    IN  CHOOSE k \in h..(h + 15) : k * k <= n /\ n < (k + 1) * (k + 1)

\* the square root of a natural number rounded to the nearest integer
IsqrtNearest(n) == LET k == Isqrt(n) IN IF n - k * k > k THEN k + 1 ELSE k

\* the largest radicand the square root is taken of in one piece
SqrtWhole == 1024 * 1024 * 1024

\* the square root of a value too large to be taken in one piece: of the value
\* rounded down to a multiple of 1 / SqrtRes^2, or to a whole number
RSqrtLarge(x) ==
    LET s2 == SqrtRes * SqrtRes
        q == x[1] \div x[2]
        r == x[1] % x[2]
        k == 1 + x[2] \div (SqrtWhole \div s2)
        frac == ((r \div k) * s2) \div (x[2] \div k)
    IN  IF q < SqrtWhole \div s2
        THEN Rat(IsqrtNearest(q * s2 + frac), SqrtRes)
        ELSE I(IsqrtNearest(q))

\* f32::sqrt: NaN for a NaN or a negative argument
RSqrt(x) ==
    IF IsNaN(x) \/ x[1] < 0 THEN NaN
    ELSE IF x[2] <= SqrtWhole \div (SqrtRes * SqrtRes)
            /\ x[1] <= SqrtWhole \div (x[2] * SqrtRes * SqrtRes)
    THEN Rat(IsqrtNearest(x[1] * x[2] * SqrtRes * SqrtRes), x[2] * SqrtRes)
    ELSE RSqrtLarge(x)

\* x rounded to the nearest multiple of 1 / res
RRound(x, res) ==
    IF IsNaN(x) THEN NaN
    ELSE LET q == x[1] \div x[2]
             r == x[1] % x[2]
         IN  Rat(q * res + ((2 * r * res + x[2]) \div (2 * x[2])), res)

\* the f32 rounding of a result of the shading arithmetic
F32(x) == RRound(x, ShadeRes)

\* x * x * ... * x (k factors) by repeated squaring, each product rounded
RECURSIVE RPowNat(_, _)
RPowNat(x, k) ==
    IF k = 0 THEN I(1)
    ELSE IF k = 1 THEN x
    ELSE LET half == RPowNat(x, k \div 2)
             square == F32(RMul(half, half))
         IN  IF IsNaN(half) THEN NaN
             ELSE IF k % 2 = 0 THEN square
             ELSE F32(RMul(square, x))

\* f32::powf for a whole exponent s >= 0
RPowf(x, s) == IF IsNaN(x) \/ IsNaN(s) THEN NaN ELSE RPowNat(F32(x), s[1])

\* f32::min and f32::max: the other operand when one is a NaN
RMin(x, y) == IF IsNaN(x) THEN y ELSE IF IsNaN(y) THEN x ELSE IF RLt(y, x) THEN y ELSE x
RMax(x, y) == IF IsNaN(x) THEN y ELSE IF IsNaN(y) THEN x ELSE IF RGt(y, x) THEN y ELSE x

\* `as u8` on an f32: truncation towards zero, saturating at 0 and 255, 0 for NaN
as_u8(x) ==
    IF IsNaN(x) \/ x[1] <= 0 THEN 0
    ELSE IF RGe(x, I(255)) THEN 255
    ELSE x[1] \div x[2]

\* a literal of the source that is compared with a squared length or a dot
\* product of two lengths, in grid units
Len2(c) == RMul(c, I(unit * unit))

\* a literal of the source that is compared with a length, in grid units
Len1(c) == RMul(c, I(unit))

---------------------------------------------------------------------------
(* cgmath Vector3 / Point3 over f32 *)

V3(x, y, z) == <<I(x), I(y), I(z)>>

VZero == V3(0, 0, 0)

VSub(a, b) == <<RSub(a[1], b[1]), RSub(a[2], b[2]), RSub(a[3], b[3])>>

VAdd(a, b) == <<RAdd(a[1], b[1]), RAdd(a[2], b[2]), RAdd(a[3], b[3])>>

VScale(a, s) == <<RMul(a[1], s), RMul(a[2], s), RMul(a[3], s)>>

dot(a, b) == RAdd(RAdd(RMul(a[1], b[1]), RMul(a[2], b[2])), RMul(a[3], b[3]))

magnitude2(a) == dot(a, a)

VNeg(a) == <<RNeg(a[1]), RNeg(a[2]), RNeg(a[3])>>

cross(a, b) ==
    <<RSub(RMul(a[2], b[3]), RMul(a[3], b[2])),
      RSub(RMul(a[3], b[1]), RMul(a[1], b[3])),
      RSub(RMul(a[1], b[2]), RMul(a[2], b[1]))>>

\* InnerSpace::normalize: self / self.magnitude()
normalize(a) == VScale(a, RDiv(I(1), RSqrt(magnitude2(a))))

---------------------------------------------------------------------------
(* shape.rs: Intersection *)

\* the literal 1E-6 of sphere.rs and plane.rs
EPS_1E6 == <<1, 1000000>>

\* f32::EPSILON = 2^-23, the default epsilon of abs_diff_eq! on f32
F32_EPSILON == <<1, 8388608>>

\* Intersection::no(): dist2 = -1. (a squared length), normal = Vector3::zero()
no == [dist2 |-> Len2(I(-1)), normal |-> VZero]

\* Intersection::new
new(dist2, normal) == [dist2 |-> dist2, normal |-> normal]

\* Intersection::exists: self.dist2 >= 0.
exists(self) == RGe(self.dist2, Zero)

\* impl PartialEq for Intersection
eq(self, other) == exists(self) /\ exists(other) /\ REq(self.dist2, other.dist2)

\* f32::partial_cmp
f32_partial_cmp(x, y) ==
    IF IsNaN(x) \/ IsNaN(y) THEN "None"
    ELSE LET c == RCmp(x, y)
         IN  IF c < 0 THEN "Less" ELSE IF c = 0 THEN "Equal" ELSE "Greater"

\* the ordering of the distances alone, whether or not they exist
partial_cmp_dist2(self, other) == f32_partial_cmp(self.dist2, other.dist2)

\* impl PartialOrd for Intersection
partial_cmp(self, other) ==
    IF exists(self)
    THEN IF exists(other)
         THEN f32_partial_cmp(self.dist2, other.dist2)
         ELSE "Less"
    ELSE IF exists(other)
         THEN "Greater"
         ELSE "None"

\* the operator < that PartialOrd derives from partial_cmp
lt(self, other) == partial_cmp(self, other) = "Less"

\* IntersectionN::new
IntersectionN_new(dist, normal) == [dist |-> dist, normal |-> normal]

\* IntersectionN::new_empty(): dist = -1. (a length), normal = Vector3::x_axis()
new_empty == [dist |-> Len1(I(-1)), normal |-> V3(1, 0, 0)]

---------------------------------------------------------------------------
(* sphere.rs: Sphere *)

\* Sphere::new
Sphere_new(center, radius) == [center |-> center, radius |-> radius]

\* let projection2 = p * p / dir.magnitude2()
projection2_unit_dir(p, dir) == RMul(p, p)

projection2_of(p, dir) == RDiv(RMul(p, p), magnitude2(dir))

\* if ray_dist2 > r2 { return Intersection::no() }
misses_flipped(ray_dist2, r2) == RLt(ray_dist2, r2)

misses(ray_dist2, r2) == RGt(ray_dist2, r2)

\* if projection2 < seg2 { return Intersection::no() }
origin_inside_never(projection2, seg2) == FALSE

origin_inside(projection2, seg2) == RLt(projection2, seg2)

\* projection2 + seg2 - (4. * projection2 * seg2).sqrt()
far_root(projection2, seg2) ==
    RAdd(RAdd(projection2, seg2), RSqrt(RMul(RMul(I(4), projection2), seg2)))

near_root(projection2, seg2) ==
    RSub(RAdd(projection2, seg2), RSqrt(RMul(RMul(I(4), projection2), seg2)))

\* the normal pointing from the hit point to the center
sphere_normal_inward(to_intersect, to_center) == VSub(to_center, to_intersect)

\* Intersection::new(dist2, to_intersect - to_center): the normal of a sphere hit
sphere_normal(to_intersect, to_center) == VSub(to_intersect, to_center)

\* impl Shape for Sphere: ray_intersect
Sphere_ray_intersect(self, origin, dir) ==
    LET to_center == VSub(self.center, origin)
        p == dot(to_center, dir)
    IN  IF RLt(p, Zero) THEN no
        ELSE
        LET projection2 == projection2_of(p, dir)
            ray_dist2 == RSub(magnitude2(to_center), projection2)
            r2 == RMul(self.radius, self.radius)
        IN  IF misses(ray_dist2, r2) THEN no
            ELSE
            LET seg2 == RSub(r2, ray_dist2)
            IN  IF origin_inside(projection2, seg2) THEN no
                ELSE
                LET dist2 == near_root(projection2, seg2)
                IN  IF RLt(dist2, Len2(EPS_1E6)) THEN no
                    ELSE
                    LET to_intersect ==
                            VScale(dir, RSqrt(RDiv(dist2, magnitude2(dir))))
                    IN  new(dist2, sphere_normal(to_intersect, to_center))

\* SphereN::new
SphereN_new(center, radius) ==
    [center |-> center, radius |-> radius, radius2 |-> RMul(radius, radius)]

\* let dist = projection2.sqrt() - seg2.sqrt()
spheren_dist(projection2, seg2) == RSub(RSqrt(projection2), RSqrt(seg2))

\* impl ShapeN for SphereN: ray_intersect; dir is a Unit vector (pure numbers)
SphereN_ray_intersect(self, origin, dir) ==
    LET to_center == VSub(self.center, origin)
        projection == dot(dir, to_center)
    IN  IF RLe(projection, Zero) THEN new_empty
        ELSE
        LET projection2 == RMul(projection, projection)
            ray_dist2 == RSub(magnitude2(to_center), projection2)
        IN  IF RGe(ray_dist2, self.radius2) THEN new_empty
            ELSE
            LET seg2 == RSub(self.radius2, ray_dist2)
            IN  IF RLe(projection2, seg2) THEN new_empty
                ELSE
                LET dist == spheren_dist(projection2, seg2)
                    to_intersect == VScale(dir, dist)
                    normal == VScale(VSub(to_intersect, to_center),
                                     RDiv(I(1), self.radius))
                IN  IntersectionN_new(dist, normal)

---------------------------------------------------------------------------
(* plane.rs: Plane *)

\* Plane::new
Plane_new(point, normal) == [point |-> point, normal |-> normal]

\* abs_diff_eq!(a, b) on a dot product of two lengths: |a - b| <= f32::EPSILON
abs_diff_eq(a, b) ==
    LET diff == IF RGt(a, b) THEN RSub(a, b) ELSE RSub(b, a)
    IN  RLe(diff, Len2(F32_EPSILON))

\* let dist2 = ratio * ratio * dir.magnitude2()
plane_dist2_unit_dir(ratio, dir) == RMul(ratio, ratio)

plane_dist2(ratio, dir) == RMul(RMul(ratio, ratio), magnitude2(dir))

\* impl Shape for Plane: ray_intersect
Plane_ray_intersect(self, origin, dir) ==
    LET dir_proj == dot(dir, self.normal)
    IN  IF abs_diff_eq(dir_proj, Zero) THEN no
        ELSE
        LET point_proj == dot(VSub(self.point, origin), self.normal)
            ratio == RDiv(point_proj, dir_proj)
        IN  IF RLt(ratio, EPS_1E6) THEN no
            ELSE
            LET dist2 == plane_dist2(ratio, dir)
            IN  new(dist2, self.normal)

\* PlaneN::new
PlaneN_new(point, normal) == [point |-> point, normal |-> normal]

\* abs_diff_eq!(a, b) on a dot product of two Unit vectors
abs_diff_eq_n(a, b) ==
    LET diff == IF RGt(a, b) THEN RSub(a, b) ELSE RSub(b, a)
    IN  RLe(diff, F32_EPSILON)

\* impl ShapeN for PlaneN: ray_intersect; dir and self.normal are Unit vectors
PlaneN_ray_intersect(self, origin, dir) ==
    LET dir_proj == dot(dir, self.normal)
    IN  IF abs_diff_eq_n(dir_proj, Zero) THEN new_empty
        ELSE
        LET point_proj == dot(self.normal, VSub(self.point, origin))
            ratio == RDiv(point_proj, dir_proj)
        IN  IF RLt(ratio, Len1(EPS_1E6)) THEN new_empty
            ELSE IntersectionN_new(ratio, self.normal)

---------------------------------------------------------------------------
(* material.rs, light.rs: plain data *)

\* Material::new(r, g, b)
Material_new(r, g, b) ==
    [color |-> <<r, g, b>>, diffusion |-> I(1), reflection |-> I(3), shininess |-> I(10)]

\* PointLight::new
PointLight_new(position, intensity) == [position |-> position, intensity |-> intensity]

\* SphereLight::new
SphereLight_new(center, radius, intensity) ==
    [center |-> center, radius |-> radius, intensity |-> intensity]

\* the unit vectors the caller's generator yields, in order; the generator's
\* state is the position in this cycle
RngStream ==
    <<<<Zero, <<4, 5>>, <<-3, 5>>>>, V3(0, 0, -1), <<Zero, <<3, 5>>, <<4, 5>>>>,
      <<Zero, <<3, 5>>, <<-4, 5>>>>, V3(0, 1, 0), <<Zero, <<-4, 5>>, <<-3, 5>>>>>>

\* a sample drawn from a generator of the thread's own, which the render before
\* has moved, and not from rng
UnitSphereSurface_sample_thread_rng(r) ==
    <<RngStream[((r + (IF last.op = "render" THEN 1 ELSE 0)) % Len(RngStream)) + 1],
      (r + 1) % Len(RngStream)>>

\* UnitSphereSurface::sample(rng): <<the unit vector drawn, the generator's next state>>
UnitSphereSurface_sample(r) == <<RngStream[r + 1], (r + 1) % Len(RngStream)>>

\* impl Light for PointLight: sample_ray, <<vector, the generator's state>>
PointLight_sample_ray(self, from, r) == <<VSub(self.position, from), r>>

\* impl Light for SphereLight: sample_ray, <<vector, the generator's state>>
SphereLight_sample_ray(self, from, r) ==
    LET drawn == UnitSphereSurface_sample(r)
        sphere_point == VAdd(self.center, VScale(drawn[1], self.radius))
    IN  <<VSub(sphere_point, from), drawn[2]>>

\* Light::sample_ray for the light type L
sample_ray(L, self, from, r) ==
    IF L = "PointLight" THEN PointLight_sample_ray(self, from, r)
    ELSE SphereLight_sample_ray(self, from, r)

---------------------------------------------------------------------------
(* scene.rs: Scene *)

NoCall == [op |-> "none"]

NoArg == [kind |-> "none"]

\* Scene::new
Scene_new ==
    /\ spheres = <<>>
    /\ planes = <<>>
    /\ materials = <<>>
    /\ point_lights = <<>>
    /\ sphere_lights = <<>>
    /\ sphere_light_samples = 100
    /\ calls = <<>>

\* the number of add_* calls made so far
Adds == Len(calls) + Len(point_lights) + Len(sphere_lights)

\* add_sphere taking the id from the sphere list instead of the material list
add_sphere_own_index(sphere, material) ==
    LET id == Len(spheres)
    IN  /\ spheres' = Append(spheres, <<id, sphere>>)
        /\ materials' = Append(materials, material)
        /\ calls' = Append(calls, [op |-> "add_sphere", shape |-> sphere,
                                   material |-> material, ret |-> id])
        /\ last' = [op |-> "add_sphere", ret |-> id]
        /\ UNCHANGED <<planes, point_lights, sphere_lights, sphere_light_samples>>

\* Scene::add_sphere; ids are usize, so materials[id] is materials[id + 1] here
add_sphere(sphere, material) ==
    LET id == Len(materials)
    IN  /\ spheres' = Append(spheres, <<id, sphere>>)
        /\ materials' = Append(materials, material)
        /\ calls' = Append(calls, [op |-> "add_sphere", shape |-> sphere,
                                   material |-> material, ret |-> id])
        /\ last' = [op |-> "add_sphere", ret |-> id]
        /\ UNCHANGED <<planes, point_lights, sphere_lights, sphere_light_samples>>

\* Scene::add_plane
add_plane(plane, material) ==
    LET id == Len(materials)
    IN  /\ planes' = Append(planes, <<id, plane>>)
        /\ materials' = Append(materials, material)
        /\ calls' = Append(calls, [op |-> "add_plane", shape |-> plane,
                                   material |-> material, ret |-> id])
        /\ last' = [op |-> "add_plane", ret |-> id]
        /\ UNCHANGED <<spheres, point_lights, sphere_lights, sphere_light_samples>>

\* Scene::add_point_light
add_point_light(position, intensity) ==
    /\ point_lights' = Append(point_lights, PointLight_new(position, intensity))
    /\ last' = [op |-> "add_point_light"]
    /\ UNCHANGED <<spheres, planes, materials, sphere_lights, sphere_light_samples, calls>>

\* Scene::add_sphere_light
add_sphere_light(center, radius, intensity) ==
    /\ sphere_lights' = Append(sphere_lights, SphereLight_new(center, radius, intensity))
    /\ last' = [op |-> "add_sphere_light"]
    /\ UNCHANGED <<spheres, planes, materials, point_lights, sphere_light_samples, calls>>

\* the statements of a block run in order: first is evaluated, then rest
in_order(first, rest) == IF first = first THEN rest ELSE rest

\* the loop body with the comparison turned around: the farthest hit is kept
nearer_farthest(acc, id, intersection) ==
    in_order(intersection,
        IF exists(intersection) /\ (~exists(acc[1]) \/ lt(acc[1], intersection))
        THEN <<intersection, id>> ELSE acc)

\* the loop body with <= for <: a shape at the same distance replaces the best
nearer_or_equal(acc, id, intersection) ==
    in_order(intersection,
        IF lt(intersection, acc[1]) \/ eq(intersection, acc[1])
        THEN <<intersection, id>> ELSE acc)

\* one turn of the loops of find_intersection: let intersection = ...;
\* if intersection < nearest { ... }
nearer(acc, id, intersection) ==
    in_order(intersection,
        IF lt(intersection, acc[1]) THEN <<intersection, id>> ELSE acc)

\* for (id, sphere) in self.spheres.iter()
RECURSIVE for_spheres(_, _, _, _)
for_spheres(list, origin, dir, acc) ==
    in_order(acc,
        IF list = <<>> THEN acc
        ELSE for_spheres(Tail(list), origin, dir,
                         nearer(acc, Head(list)[1],
                                Sphere_ray_intersect(Head(list)[2], origin, dir))))

\* for (id, plane) in self.planes.iter()
RECURSIVE for_planes(_, _, _, _)
for_planes(list, origin, dir, acc) ==
    in_order(acc,
        IF list = <<>> THEN acc
        ELSE for_planes(Tail(list), origin, dir,
                        nearer(acc, Head(list)[1],
                               Plane_ray_intersect(Head(list)[2], origin, dir))))

\* find_intersection with best_idx starting at the last material instead of 0
find_intersection_last_idx(origin, dir) ==
    for_planes(planes, origin, dir,
               for_spheres(spheres, origin, dir, <<no, Len(materials) - 1>>))

\* Scene::find_intersection: <<nearest, best_idx>>
find_intersection(origin, dir) ==
    for_planes(planes, origin, dir, for_spheres(spheres, origin, dir, <<no, 0>>))

\* the literal 0.001 of illumination_from_light (a length)
SHADOW_BIAS == <<1, 1000>>

\* the occlusion test dropped: no shadow ray ever hides a light
occluded_never(to_light_int, light_dist2) == FALSE

\* if to_light_int.exists() && to_light_int.dist2 < light_dist2 { continue; }
occluded(to_light_int, light_dist2) ==
    exists(to_light_int) /\ RLt(to_light_int.dist2, light_dist2)

\* the back-face test dropped
back_facing_never(diffusion_intensity) == FALSE

\* if diffusion_intensity <= 1E-6 { continue; }
back_facing(diffusion_intensity) == RLe(diffusion_intensity, EPS_1E6)

\* the contribution falling with the light's intensity
contribution_inverse(intensity, dist2, material, diffusion_intensity, reflect_intensity) ==
    F32(RMul(F32(RDiv(dist2, intensity)),
             RAdd(RMul(material.diffusion, F32(diffusion_intensity)),
                  RMul(material.reflection, reflect_intensity))))

\* light.intensity() / dist2 * (material.diffusion * diffusion_intensity
\*                              + material.reflection * reflect_intensity)
contribution(intensity, dist2, material, diffusion_intensity, reflect_intensity) ==
    F32(RMul(F32(RDiv(intensity, dist2)),
             RAdd(RMul(material.diffusion, F32(diffusion_intensity)),
                  RMul(material.reflection, reflect_intensity))))

\* one turn of the loop of illumination_from_light from let to_light_int on,
\* light_dir being the normalized light_vec: what was added to total, and the
\* values the turn computed
turn_towards(point, normal, dir, material, intensity, light_vec, light_dir) ==
    LET light_dist2 == magnitude2(light_vec)
        expanded == VAdd(point, VScale(normal, Len1(SHADOW_BIAS)))
        to_light_int == find_intersection(expanded, light_dir)[1]
        turn == [light_vec |-> light_vec]
    IN  in_order(light_dir,
        IF occluded(to_light_int, light_dist2)
        THEN turn @@ [skipped |-> "occluded", added |-> Zero]
        ELSE
        LET dist2 == magnitude2(light_vec)
            diffusion_intensity == dot(normal, light_dir)
        IN  IF back_facing(diffusion_intensity)
            THEN turn @@ [skipped |-> "other side", added |-> Zero]
            ELSE
            LET reflect_vec == normalize(VSub(VScale(VScale(normal, I(2)),
                                                     dot(light_dir, normal)),
                                              light_dir))
                reflect_dot == dot(reflect_vec, VNeg(dir))
                reflect_intensity == IF RGt(reflect_dot, Zero)
                                     THEN RPowf(reflect_dot, material.shininess)
                                     ELSE Zero
            IN  turn @@ [skipped |-> "no",
                         added |-> contribution(intensity, dist2, material,
                                                diffusion_intensity, reflect_intensity)])

\* one turn of the loop of illumination_from_light for the drawn light_vec
sample_turn(point, normal, dir, material, intensity, light_vec) ==
    turn_towards(point, normal, dir, material, intensity, light_vec, normalize(light_vec))

\* the body of the loop of illumination_from_light for every state r the
\* generator can be in at a turn: the turn made and the generator's state after
\* it (the scene and the hit point do not change during the loop, so a turn
\* depends on the generator's state only)
turn_table(states, point, normal, dir, material, L, light) ==
    [r \in states |->
        LET drawn == sample_ray(L, light, point, r)
            turn == sample_turn(point, normal, dir, material, light.intensity, drawn[1])
        IN  [turn |-> turn @@ [light |-> L], rng |-> drawn[2]]]

\* one turn of the loop: acc is <<total, the generator's state, the turns made
\* so far>>
one_sample(acc, table) ==
    LET step == table[acc[2]]
    IN  IF step.turn.skipped # "no"
        THEN <<acc[1], step.rng, Append(acc[3], step.turn)>>
        ELSE <<RAdd(acc[1], step.turn.added), step.rng, Append(acc[3], step.turn)>>

\* for _ in 0..samples { ... }: samples turns of the loop, one after the
\* other, as ten runs of consecutive turns, each run starting from where the
\* run before it stopped
RECURSIVE for_samples(_, _, _)
for_samples(samples, acc, table) ==
    IF samples = 0 THEN acc
    ELSE IF samples = 1 THEN one_sample(acc, table)
    ELSE LET part == (samples + 9) \div 10
             turns_of(k) == IF samples - k * part >= part THEN part
                            ELSE IF samples - k * part > 0 THEN samples - k * part
                            ELSE 0
             run(k, from) == for_samples(turns_of(k), from, table)
             a1 == run(0, acc)
             a2 == run(1, a1)
             a3 == run(2, a2)
             a4 == run(3, a3)
             a5 == run(4, a4)
             a6 == run(5, a5)
             a7 == run(6, a6)
             a8 == run(7, a7)
             a9 == run(8, a8)
         IN  in_order(<<a1, a2, a3, a4, a5, a6, a7, a8, a9>>, run(9, a9))

\* the sum divided by the number of samples that were not skipped
mean_of_unskipped(total, samples, turns) ==
    F32(RDiv(total, I(Cardinality({i \in 1..Len(turns) : turns[i].skipped = "no"}))))

\* total / samples as f32
mean(total, samples, turns) == F32(RDiv(total, I(samples)))

\* total / samples as f32 for the loop that ended in done: the turns of the
\* loop, the generator's state after them, and the value returned
averaged(samples, done) ==
    [turns |-> done[3], rng |-> done[2],
     illumination |-> mean(done[1], samples, done[3])]

\* let mut total = 0.0; for _ in 0..samples { ... }; total / samples as f32
sampled(r, samples, table) ==
    in_order(table, averaged(samples, for_samples(samples, <<Zero, r, <<>>>>, table)))

\* Scene::illumination_from_light: the turns of the loop, the generator's
\* state after them, and the value returned
illumination_from_light(r, point, normal, dir, material, L, light, samples) ==
    LET states == {(r + i) % Len(RngStream) : i \in 0..(samples - 1)}
    IN  sampled(r, samples, turn_table(states, point, normal, dir, material, L, light))

\* illumination += got, where got is what illumination_from_light returned;
\* acc is <<illumination, the generator's state, the turns made>>
add_light(acc, got) ==
    <<RAdd(acc[1], got.illumination), got.rng, acc[3] \o got.turns>>

\* for light in self.point_lights.iter() / self.sphere_lights.iter():
\* illumination += self.illumination_from_light(...), one light after the other
RECURSIVE for_lights(_, _, _, _, _, _, _, _)
for_lights(list, L, samples, acc, ipoint, normal, dir, material) ==
    in_order(acc,
        IF list = <<>> THEN acc
        ELSE for_lights(Tail(list), L, samples,
                        add_light(acc, illumination_from_light(acc[2], ipoint, normal, dir,
                                                               material, L, Head(list),
                                                               samples)),
                        ipoint, normal, dir, material))

\* the channel cast as a wrapping conversion to 8 bits
channel_wrapping(c, illumination) ==
    LET x == RMul(RMin(RMul(c, illumination), I(1)), I(255))
    IN  IF IsNaN(x) THEN 0 ELSE (x[1] \div x[2]) % 256

\* ((material.color[i] * illumination).min(1.) * 255.) as u8
channel(c, illumination) == as_u8(RMul(RMin(RMul(c, illumination), I(1)), I(255)))

\* impl Into<image::Rgb<u8>> for Color, one channel:
\* (rgb[i] * 256.).max(0.).min(255.) as u8
Color_into(x) == as_u8(RMin(RMax(RMul(x, I(256)), Zero), I(255)))

\* the lights of ray_color with the sphere lights taken first
lights_sphere_first(pl, sl, r, ipoint, normal, dir, material) ==
    for_lights(pl, "PointLight", 1,
               for_lights(sl, "SphereLight", sphere_light_samples,
                          <<Zero, r, <<>>>>, ipoint, normal, dir, material),
               ipoint, normal, dir, material)

\* the two loops over the lights of ray_color, pl and sl standing for
\* self.point_lights and self.sphere_lights
lights(pl, sl, r, ipoint, normal, dir, material) ==
    for_lights(sl, "SphereLight", sphere_light_samples,
               for_lights(pl, "PointLight", 1,
                          <<Zero, r, <<>>>>, ipoint, normal, dir, material),
               ipoint, normal, dir, material)

\* the early return dropped: a ray that hits nothing is shaded like a hit
is_background_never(intersection) == FALSE

\* if !intersection.exists() { return image::Rgb([0, 0, 0]); }
is_background(intersection) == ~exists(intersection)

\* the end of ray_color: the colour of the hit from the illumination summed
\* over the lights, lit being <<illumination, the generator's state, the turns>>
shaded(id, material, ipoint, normal, lit) ==
    LET illumination == lit[1]
    IN  [reads |-> <<id>>, point |-> ipoint, normal |-> normal,
         turns |-> lit[3], rng |-> lit[2],
         illumination |-> illumination,
         color |-> <<channel(material.color[1], illumination),
                     channel(material.color[2], illumination),
                     channel(material.color[3], illumination)>>,
         hit |-> TRUE, panic |-> FALSE]

\* ray_color from let mut illumination = 0.0 on: the hit point, the direction
\* and the normal are known, the lights are summed
hit_color(pl, sl, r, id, material, ipoint, dirn, normal) ==
    in_order(<<ipoint, dirn, normal>>,
             shaded(id, material, ipoint, normal,
                    lights(pl, sl, r, ipoint, normal, dirn, material)))

\* ray_color after let (intersection, id) = self.find_intersection(origin, dir)
found_color(pl, sl, r, origin, dir, found) ==
    LET intersection == found[1]
        id == found[2]
    IN  IF is_background(intersection)
        THEN [color |-> <<0, 0, 0>>, rng |-> r, reads |-> <<>>, turns |-> <<>>,
              illumination |-> Zero, hit |-> FALSE, panic |-> FALSE]
        ELSE IF id >= Len(materials)
        THEN [color |-> <<0, 0, 0>>, rng |-> r, reads |-> <<id>>, turns |-> <<>>,
              illumination |-> Zero, hit |-> TRUE, panic |-> TRUE]
        ELSE hit_color(pl, sl, r, id, materials[id + 1],
                       VAdd(origin, VScale(dir, RSqrt(RDiv(intersection.dist2,
                                                           magnitude2(dir))))),
                       normalize(dir), normalize(intersection.normal))

\* Scene::ray_color: the colour, the generator's state afterwards, and what the
\* call did (the reads of self.materials, the samples drawn with their shadow
\* rays); panic is the out-of-bounds index of self.materials[id]; pl and sl
\* stand for self.point_lights and self.sphere_lights
ray_color_with(pl, sl, r, origin, dir) ==
    found_color(pl, sl, r, origin, dir, find_intersection(origin, dir))

\* Scene::ray_color on self
ray_color(r, origin, dir) == ray_color_with(point_lights, sphere_lights, r, origin, dir)

\* Scene::set_sphere_light_samples
set_sphere_light_samples(value) ==
    /\ sphere_light_samples' = value
    /\ last' = [op |-> "set_sphere_light_samples", value |-> value]
    /\ UNCHANGED <<spheres, planes, materials, point_lights, sphere_lights, calls>>

---------------------------------------------------------------------------
(* camera.rs: Camera.  An angle is held as the tangent of its half, the only *)
(* use the code makes of horizontal_fov; the view is held as the rotation's  *)
(* three axes and the translation.                                           *)

\* (0.5 * FRAC_PI_2).tan()
TAN_FRAC_PI_4 == I(1)

\* scale_from_dims(w, horizontal_fov)
scale_from_dims(w, horizontal_fov) == RDiv(horizontal_fov, RMul(<<1, 2>>, I(w)))

\* the rotation whose z axis is dir and whose x axis is across up and dir
face_towards(dir, up) ==
    LET zaxis == normalize(dir)
        xaxis == normalize(cross(up, zaxis))
        yaxis == normalize(cross(zaxis, xaxis))
    IN  <<xaxis, yaxis, zaxis>>

\* create_view_transform: Isometry3::look_at_rh(eye, target, up).inverse()
create_view_transform(eye, target, up) ==
    [translation |-> eye, rotation |-> face_towards(VSub(eye, target), up)]

\* Camera::new
Camera_new ==
    [eye |-> VZero, target |-> V3(0, 0, -unit), up |-> V3(0, 1, 0),
     horizontal_fov |-> TAN_FRAC_PI_4, w |-> 1280, h |-> 720,
     w_half |-> 1280 \div 2, h_half |-> 720 \div 2,
     scale |-> scale_from_dims(1280, TAN_FRAC_PI_4),
     view |-> create_view_transform(VZero, V3(0, 0, -unit), V3(0, 1, 0))]

\* Camera::set_eye
set_eye(self, eye) ==
    [self EXCEPT !.eye = eye,
                 !.view = create_view_transform(eye, self.target, self.up)]

\* Camera::set_target
set_target(self, target) ==
    [self EXCEPT !.target = target,
                 !.view = create_view_transform(self.eye, target, self.up)]

\* Camera::set_up
set_up(self, up) ==
    [self EXCEPT !.up = normalize(up),
                 !.view = create_view_transform(self.eye, self.target, normalize(up))]

\* set_fov without the scale
set_fov_stale_scale(self, fov) == [self EXCEPT !.horizontal_fov = fov]

\* Camera::set_fov
set_fov(self, fov) ==
    [self EXCEPT !.horizontal_fov = fov, !.scale = scale_from_dims(self.w, fov)]

\* Camera::set_dimensions
set_dimensions(self, w, h) ==
    [self EXCEPT !.w = w, !.h = h, !.w_half = w \div 2, !.h_half = h \div 2,
                 !.scale = scale_from_dims(w, self.horizontal_fov)]

\* self.view * camera_ray: an isometry turns a vector and does not move it
view_mul(view, v) ==
    VAdd(VAdd(VScale(view.rotation[1], v[1]), VScale(view.rotation[2], v[2])),
         VScale(view.rotation[3], v[3]))

\* Camera::transform_ray
transform_ray(self, camera_ray) == normalize(view_mul(self.view, camera_ray))

\* Camera::pixel_ray
pixel_ray(self, x, y) ==
    transform_ray(self, <<RMul(I(x - self.w_half), self.scale),
                          RMul(I(self.h_half - y), self.scale), I(-1)>>)

\* image.enumerate_pixels_mut(): the cells <<x, y>> of a w x h image, row by row
enumerate_pixels(w, h) == [i \in 1..(w * h) |-> <<(i - 1) % w, (i - 1) \div w>>]

\* a write that goes to the first cell of the image, whichever cell is rendered
put_pixel_first_cell(acc, cell, did) ==
    <<Append(acc[1], [x |-> 0, y |-> 0, color |-> did.color, rng |-> acc[2]]), did.rng>>

\* *pixel = scene.ray_color(rng, cg_eye, cg_dir): acc is <<the cells written, in
\* order, the generator's state>>
put_pixel(acc, cell, did) ==
    <<Append(acc[1], [x |-> cell[1], y |-> cell[2], color |-> did.color, rng |-> acc[2]]),
      did.rng>>

\* the loop of Camera::render over the cells of list
RECURSIVE for_pixels(_, _, _)
for_pixels(self, list, acc) ==
    in_order(acc,
        IF list = <<>> THEN acc
        ELSE for_pixels(self, Tail(list),
                 put_pixel(acc, Head(list),
                     ray_color(acc[2], self.eye,
                               pixel_ray(self, Head(list)[1], Head(list)[2])))))

\* the image the writes leave: ImageBuffer::new is black, and a cell holds the
\* colour last written to it
image_of(w, h, writes) ==
    [cell \in (0..(w - 1)) \X (0..(h - 1)) |->
        LET mine == {i \in 1..Len(writes) : <<writes[i].x, writes[i].y>> = cell}
        IN  IF mine = {} THEN <<0, 0, 0>>
            ELSE writes[CHOOSE i \in mine : \A j \in mine : j <= i].color]

\* what Camera::render returns and leaves
rendered(self, done) ==
    [image |-> image_of(self.w, self.h, done[1]), writes |-> done[1], rng |-> done[2]]

\* Camera::render over the cells of list only
render_cells(self, r, list) == rendered(self, for_pixels(self, list, <<<<>>, r>>))

\* Camera::render
render(self, r) == render_cells(self, r, enumerate_pixels(self.w, self.h))

\* a call that takes &mut Scene and sets a field
scene_borrowed_mut ==
    /\ sphere_light_samples' = 1
    /\ UNCHANGED <<spheres, planes, materials, point_lights, sphere_lights, calls>>

\* a call that takes the scene as &self, or as scene: &Scene
scene_borrowed == UNCHANGED scene_vars

---------------------------------------------------------------------------
(* The inputs the model draws from *)

\* grid steps per unit of length: the ordinary scale, and two scales at which
\* one grid step squared is 1E-6 and 1.1E-7 (just under f32::EPSILON)
Scales == {1, 1000, 3000}

\* the scales scenes are built at
SceneScales == {1, 1000}

Coords == (-MaxCoord)..MaxCoord

Points == {V3(x, y, z) : x \in Coords, y \in Coords, z \in Coords}

Origins == {V3(0, 0, 0), V3(0, -1, -1)}

\* ray directions, the zero vector among them
Dirs == {V3(0, 0, 1), V3(0, 0, -1), V3(0, 1, 0), V3(1, 0, 0), V3(1, 1, 0),
         V3(0, -1, 1), V3(1, 1, 1), V3(-1, 1, -1), V3(0, 0, 0)}

\* one direction so long that every ray parameter falls below 1E-6
PlaneDirs == Dirs \cup {V3(0, 0, 100000000)}

Radii == {I(1), I(2)}

Normals == {V3(0, 0, -1), V3(0, 0, 1), V3(0, 1, 0), V3(1, 0, -1), V3(1, 1, 1)}

\* the factors a direction or a normal is multiplied by
Factors == {I(2), <<1, 2>>}

SphereArgs ==
    [kind : {"sphere"}, self : {Sphere_new(c, r) : c \in Points, r \in Radii},
     origin : Origins, dir : Dirs, k : Factors]

PlaneArgs ==
    [kind : {"plane"}, self : {Plane_new(pt, n) : pt \in Points, n \in Normals},
     origin : Origins, dir : PlaneDirs, k : Factors]

\* Unit vectors with rational components
UnitDirs == {V3(0, 0, 1), V3(0, 0, -1), V3(0, 1, 0), V3(1, 0, 0),
             <<Zero, <<3, 5>>, <<4, 5>>>>, <<<<3, 5>>, Zero, <<-4, 5>>>>}

SphereNArgs ==
    [kind : {"sphereN"}, self : {SphereN_new(c, r) : c \in Points, r \in Radii},
     origin : Origins, dir : UnitDirs]

PlaneNArgs ==
    [kind : {"planeN"},
     self : {PlaneN_new(pt, n) : pt \in Points, n \in {V3(0, 0, -1), V3(0, 1, 0)}},
     origin : Origins, dir : UnitDirs]

Dist2Vals == {I(-2), I(-1), Zero, <<1, 2>>, I(1), I(2), NaN}

IntersectionVals ==
    {new(d, n) : d \in Dist2Vals, n \in {VZero, V3(0, 0, 1)}} \cup {no}

CmpArgs == [kind : {"cmp"}, a : IntersectionVals, b : IntersectionVals]

Materials == {Material_new(I(1), Zero, Zero), Material_new(Zero, Zero, I(1))}

SceneSpheres == {Sphere_new(V3(0, 0, 1), I(1)), Sphere_new(V3(0, 1, 1), I(1))}

ScenePlanes == {Plane_new(V3(0, 0, 0), V3(0, 0, -1)), Plane_new(V3(0, 1, 0), V3(0, -1, 0))}

\* the rays find_intersection is asked about, <<origin, dir>>
Rays == {<<V3(0, 0, -1), V3(0, 0, 1)>>, <<V3(0, 0, -3), V3(0, 1, 4)>>,
         <<V3(0, 0, -1), V3(0, 0, -1)>>}

---------------------------------------------------------------------------
(* The scene: built by add_* calls and queried by find_intersection *)

Init ==
    /\ unit \in SceneScales
    /\ Scene_new
    /\ arg = NoArg
    /\ last = NoCall
    /\ rng = 0
    /\ camera = Camera_new

AddSphere ==
    /\ Adds < MaxAdds
    /\ \E sphere \in SceneSpheres, material \in Materials : add_sphere(sphere, material)
    /\ UNCHANGED <<unit, arg, rng, camera>>

AddPlane ==
    /\ Adds < MaxAdds
    /\ \E plane \in ScenePlanes, material \in Materials : add_plane(plane, material)
    /\ UNCHANGED <<unit, arg, rng, camera>>

AddPointLight ==
    /\ Adds < MaxAdds
    /\ add_point_light(V3(0, 1, -1), I(1))
    /\ UNCHANGED <<unit, arg, rng, camera>>

AddSphereLight ==
    /\ Adds < MaxAdds
    /\ add_sphere_light(V3(0, 1, -1), I(1), I(1))
    /\ UNCHANGED <<unit, arg, rng, camera>>

FindIntersection ==
    /\ \E ray \in Rays :
           last' = [op |-> "find_intersection", origin |-> ray[1], dir |-> ray[2],
                    ret |-> find_intersection(ray[1], ray[2])]
    /\ UNCHANGED <<unit, arg, rng, camera>>
    /\ scene_borrowed

Next == AddSphere \/ AddPlane \/ AddPointLight \/ AddSphereLight \/ FindIntersection

Spec == Init /\ [][Next]_vars

---------------------------------------------------------------------------
(* The shapes: one ray_intersect call on drawn inputs, and the same call with *)
(* the direction multiplied by k                                              *)

InitShape ==
    /\ unit \in Scales
    /\ Scene_new
    /\ arg \in SphereArgs \cup PlaneArgs \cup SphereNArgs \cup PlaneNArgs
    /\ last = NoCall
    /\ rng = 0
    /\ camera = Camera_new

SphereRayIntersect ==
    /\ arg.kind = "sphere"
    /\ last = NoCall
    /\ last' = [op |-> "Sphere::ray_intersect",
                ret |-> Sphere_ray_intersect(arg.self, arg.origin, arg.dir),
                ret_k |-> Sphere_ray_intersect(arg.self, arg.origin,
                                               VScale(arg.dir, arg.k))]
    /\ UNCHANGED <<unit, arg, rng, camera>>
    /\ UNCHANGED scene_vars

PlaneRayIntersect ==
    /\ arg.kind = "plane"
    /\ last = NoCall
    /\ last' = [op |-> "Plane::ray_intersect",
                ret |-> Plane_ray_intersect(arg.self, arg.origin, arg.dir),
                ret_k |-> Plane_ray_intersect(arg.self, arg.origin,
                                              VScale(arg.dir, arg.k)),
                ret_n |-> Plane_ray_intersect(
                              Plane_new(arg.self.point, VScale(arg.self.normal, arg.k)),
                              arg.origin, arg.dir)]
    /\ UNCHANGED <<unit, arg, rng, camera>>
    /\ UNCHANGED scene_vars

SphereNRayIntersect ==
    /\ arg.kind = "sphereN"
    /\ last = NoCall
    /\ last' = [op |-> "SphereN::ray_intersect",
                ret |-> SphereN_ray_intersect(arg.self, arg.origin, arg.dir)]
    /\ UNCHANGED <<unit, arg, rng, camera>>
    /\ UNCHANGED scene_vars

PlaneNRayIntersect ==
    /\ arg.kind = "planeN"
    /\ last = NoCall
    /\ last' = [op |-> "PlaneN::ray_intersect",
                ret |-> PlaneN_ray_intersect(arg.self, arg.origin, arg.dir)]
    /\ UNCHANGED <<unit, arg, rng, camera>>
    /\ UNCHANGED scene_vars

NextShape ==
    SphereRayIntersect \/ PlaneRayIntersect \/ SphereNRayIntersect \/ PlaneNRayIntersect

SpecShape == InitShape /\ [][NextShape]_vars

---------------------------------------------------------------------------
(* The ordering of Intersections: one comparison of two drawn values *)

InitOrd ==
    /\ unit \in Scales
    /\ Scene_new
    /\ arg \in CmpArgs
    /\ last = NoCall
    /\ rng = 0
    /\ camera = Camera_new

IntersectionCompare ==
    /\ arg.kind = "cmp"
    /\ last = NoCall
    /\ last' = [op |-> "Intersection::partial_cmp",
                a_exists |-> exists(arg.a),
                b_exists |-> exists(arg.b),
                ord |-> partial_cmp(arg.a, arg.b),
                lt |-> lt(arg.a, arg.b),
                gt |-> lt(arg.b, arg.a),
                eq |-> eq(arg.a, arg.b)]
    /\ UNCHANGED <<unit, arg, rng, camera>>
    /\ UNCHANGED scene_vars

NextOrd == IntersectionCompare

SpecOrd == InitOrd /\ [][NextOrd]_vars

---------------------------------------------------------------------------
(* The conversion of a colour channel to 8 bits, as a pure function of its    *)
(* inputs: two inputs are converted side by side.                             *)

\* material colours and Color components
ColorVals == {I(-1), Zero, <<1, 2>>, <<255, 256>>, I(1), I(2)}

\* illumination values: NaN is what a sphere light sampled 0 times yields
IllumVals == {NaN, I(-1), <<-1, 512>>, Zero, <<1, 512>>, <<1, 2>>, I(1), <<3, 2>>,
              I(1000)}

ChannelArgs == [kind : {"channel"}, c : ColorVals, lo : IllumVals, hi : IllumVals]

IntoArgs == [kind : {"into"}, lo : ColorVals \cup IllumVals, hi : ColorVals \cup IllumVals]

InitColor ==
    /\ unit = 1
    /\ Scene_new
    /\ arg \in ChannelArgs \cup IntoArgs
    /\ last = NoCall
    /\ rng = 0
    /\ camera = Camera_new

\* the channel expressions of ray_color for the illuminations lo and hi
RayColorChannel ==
    /\ arg.kind = "channel"
    /\ last = NoCall
    /\ last' = [op |-> "channel",
                lo |-> RMul(arg.c, arg.lo), hi |-> RMul(arg.c, arg.hi),
                ret_lo |-> channel(arg.c, arg.lo), ret_hi |-> channel(arg.c, arg.hi)]
    /\ UNCHANGED <<unit, arg, rng, camera>>
    /\ UNCHANGED scene_vars

\* Color::into for the components lo and hi
ColorInto ==
    /\ arg.kind = "into"
    /\ last = NoCall
    /\ last' = [op |-> "into", lo |-> arg.lo, hi |-> arg.hi,
                ret_lo |-> Color_into(arg.lo), ret_hi |-> Color_into(arg.hi)]
    /\ UNCHANGED <<unit, arg, rng, camera>>
    /\ UNCHANGED scene_vars

NextColor == RayColorChannel \/ ColorInto

SpecColor == InitColor /\ [][NextColor]_vars

---------------------------------------------------------------------------
(* Shading: a scene built by add_* calls and shaded by ray_color.  The scenes *)
(* are drawn at the scale where the shadow bias 0.001 is one grid step; a     *)
(* light's intensity is held multiplied by unit^2, so that intensity / dist2  *)
(* is the program's value.                                                    *)

RenderScales == {1000}

\* the states the caller's generator starts in
Seeds == {0}

\* a floor facing the rays (its normal not of unit length), and a ball between
\* the floor and the lights
RenderPlanes == {Plane_new(V3(0, 0, 0), V3(0, 0, -2))}

RenderSpheres == {Sphere_new(V3(0, 2, -2), I(1))}

\* Material::new takes any three f32: one component is negative
RenderMaterials == {Material_new(I(1), <<1, 2>>, I(-1))}

\* the point light, and a sphere light through it: every point the
\* generator draws on the sphere light lies at a whole distance from the two
\* points of the floor the rays hit
LightPosition == V3(0, 4, -3)

LightCenter == V3(0, 0, 0)

LightRadius == I(5)

LightIntensity == I(20)

\* add_point_light takes any f32: the point light takes light away
PointLightIntensity == I(-10)

\* the values given to set_sphere_light_samples
SampleCounts == {0, 2, 3}

\* the rays ray_color is asked about, <<origin, dir>>: two towards the floor
\* and one away from everything
RenderRays == {<<V3(0, 0, -4), V3(0, 0, 1)>>, <<V3(0, 0, -4), V3(3, 0, 1)>>,
               <<V3(0, 0, -4), V3(0, 0, -1)>>}

\* the amounts a light's intensity is raised by
Raises == {I(30)}

InitRender ==
    /\ unit \in RenderScales
    /\ Scene_new
    /\ arg = NoArg
    /\ last = NoCall
    /\ rng \in Seeds
    /\ camera = Camera_new

RenderAddSphere ==
    /\ Len(calls) < MaxShapes
    /\ \E sphere \in RenderSpheres, material \in RenderMaterials :
           add_sphere(sphere, material)
    /\ UNCHANGED <<unit, arg, rng, camera>>

RenderAddPlane ==
    /\ Len(calls) < MaxShapes
    /\ \E plane \in RenderPlanes, material \in RenderMaterials :
           add_plane(plane, material)
    /\ UNCHANGED <<unit, arg, rng, camera>>

RenderAddPointLight ==
    /\ Len(point_lights) + Len(sphere_lights) < MaxLights
    /\ add_point_light(LightPosition, PointLightIntensity)
    /\ UNCHANGED <<unit, arg, rng, camera>>

RenderAddSphereLight ==
    /\ Len(point_lights) + Len(sphere_lights) < MaxLights
    /\ add_sphere_light(LightCenter, LightRadius, LightIntensity)
    /\ UNCHANGED <<unit, arg, rng, camera>>

SetSphereLightSamples ==
    /\ \E value \in SampleCounts : set_sphere_light_samples(value)
    /\ UNCHANGED <<unit, arg, rng, camera>>

\* the list with the intensity of its j-th light raised by up
Raised(list, j, up) ==
    [i \in 1..Len(list) |->
        IF i = j THEN [list[i] EXCEPT !.intensity = RAdd(@, up)] ELSE list[i]]

\* the colour and the illumination of a ray_color call
seen(did) == [color |-> did.color, illumination |-> did.illumination]

\* the ray_color call in the scene whose light j (the point lights counted
\* first) is raised by up; no light is raised for j = 0
brighter(ray, j, up) ==
    ray_color_with(Raised(point_lights, j, up),
                   Raised(sphere_lights, j - Len(point_lights), up),
                   rng, ray[1], ray[2])

\* the ray_color call (run 0), and the same call with each light raised
ray_color_runs(ray, up) ==
    [j \in 0..(Len(point_lights) + Len(sphere_lights)) |-> brighter(ray, j, up)]

\* what a ray_color call leaves behind: runs[0] is what the call did
ray_color_returns(ray, runs) ==
    /\ last' = [op |-> "ray_color", origin |-> ray[1], dir |-> ray[2],
                rng |-> rng, ret |-> runs[0].color, did |-> runs[0],
                brighter |-> [j \in 1..(Len(point_lights) + Len(sphere_lights)) |->
                                 seen(runs[j])]]
    /\ rng' = runs[0].rng

\* one ray_color call, and for every light the same call on the scene in which
\* that light is brighter by up
RayColor ==
    /\ \E ray \in RenderRays, up \in Raises :
           ray_color_returns(ray, ray_color_runs(ray, up))
    /\ UNCHANGED <<unit, arg, camera>>
    /\ scene_borrowed

NextRender ==
    \/ RenderAddSphere \/ RenderAddPlane \/ RenderAddPointLight \/ RenderAddSphereLight
    \/ SetSphereLightSamples \/ RayColor

SpecRender == InitRender /\ [][NextRender]_vars

---------------------------------------------------------------------------
(* The Camera builder: a camera configured by set_* calls in any order, and  *)
(* asked for pixel rays.  arg holds the value last given to each setter (the *)
(* value Camera::new uses, for a setter not called yet).                     *)

\* eyes and targets at whole distances from each other: one eye is the target
\* of Camera::new
Eyes == {V3(0, 3, 3), V3(0, 0, -1)}

Targets == {V3(0, 0, 3)}

\* ups: one not of unit length, one along the view of Camera::new
Ups == {V3(0, 2, 0), V3(0, 0, 1)}

\* fields of view, as the tangent of the half angle
Fovs == {<<3, 4>>}

\* <<w, h>>
Dimensions == {<<400, 200>>, <<3, 1>>}

Given ==
    [eye |-> VZero, target |-> V3(0, 0, -unit), up |-> V3(0, 1, 0),
     fov |-> TAN_FRAC_PI_4, w |-> 1280, h |-> 720]

InitCamera ==
    /\ unit = 1
    /\ Scene_new
    /\ arg = Given
    /\ last = NoCall
    /\ rng = 0
    /\ camera = Camera_new

SetEye ==
    /\ \E eye \in Eyes :
           /\ camera' = set_eye(camera, eye)
           /\ arg' = [arg EXCEPT !.eye = eye]
    /\ last' = [op |-> "set_eye"]
    /\ UNCHANGED <<unit, rng>>
    /\ UNCHANGED scene_vars

SetTarget ==
    /\ \E target \in Targets :
           /\ camera' = set_target(camera, target)
           /\ arg' = [arg EXCEPT !.target = target]
    /\ last' = [op |-> "set_target"]
    /\ UNCHANGED <<unit, rng>>
    /\ UNCHANGED scene_vars

SetUp ==
    /\ \E up \in Ups :
           /\ camera' = set_up(camera, up)
           /\ arg' = [arg EXCEPT !.up = up]
    /\ last' = [op |-> "set_up"]
    /\ UNCHANGED <<unit, rng>>
    /\ UNCHANGED scene_vars

SetFov ==
    /\ \E fov \in Fovs :
           /\ camera' = set_fov(camera, fov)
           /\ arg' = [arg EXCEPT !.fov = fov]
    /\ last' = [op |-> "set_fov"]
    /\ UNCHANGED <<unit, rng>>
    /\ UNCHANGED scene_vars

SetDimensions ==
    /\ \E dims \in Dimensions :
           /\ camera' = set_dimensions(camera, dims[1], dims[2])
           /\ arg' = [arg EXCEPT !.w = dims[1], !.h = dims[2]]
    /\ last' = [op |-> "set_dimensions"]
    /\ UNCHANGED <<unit, rng>>
    /\ UNCHANGED scene_vars

\* pixel_ray for the corners and the middle of the image
PixelRay ==
    /\ \E x \in {0, camera.w_half, camera.w}, y \in {0, camera.h_half} :
           last' = [op |-> "pixel_ray", x |-> x, y |-> y, ret |-> pixel_ray(camera, x, y)]
    /\ UNCHANGED <<unit, arg, rng, camera>>
    /\ UNCHANGED scene_vars

NextCamera == SetEye \/ SetTarget \/ SetUp \/ SetFov \/ SetDimensions \/ PixelRay

SpecCamera == InitCamera /\ [][NextCamera]_vars

---------------------------------------------------------------------------
(* Rendering: a scene built by add_* calls, queried by find_intersection and  *)
(* rendered by Camera::render through a camera that looks at the floor.       *)

\* the camera: from (0, 0, -4) towards the origin, two pixels wide; the rays
\* of its two pixels are along (3, 0, 1) and (0, 0, 1)
ImageCameras ==
    {set_dimensions(set_fov(set_target(set_eye(Camera_new, V3(0, 0, -4)), VZero), I(3)),
                    2, 1)}

InitImage ==
    /\ unit \in RenderScales
    /\ Scene_new
    /\ arg = NoArg
    /\ last = NoCall
    /\ rng \in Seeds
    /\ camera \in ImageCameras

\* the cells of run v: every cell of the image for v = 0, the v-th cell alone
\* otherwise
cells_of(self, v) ==
    IF v = 0 THEN enumerate_pixels(self.w, self.h)
    ELSE <<enumerate_pixels(self.w, self.h)[v]>>

\* Camera::render from the generator's state r (run 0), and for every cell the
\* render of that cell alone from the same state
render_runs(self, r) ==
    [v \in 0..(self.w * self.h) |-> render_cells(self, r, cells_of(self, v))]

\* the render before this one, when no other call came between them
render_before ==
    IF last.op = "render"
    THEN [op |-> "render", rng |-> last.rng, ret |-> last.ret, rng_out |-> last.rng_out]
    ELSE NoCall

\* the find_intersection call before this render, when only renders came
\* between them
found_before ==
    IF last.op = "find_intersection" THEN last
    ELSE IF last.op = "render" THEN last.found
    ELSE NoCall

\* what a render call leaves behind: runs[0] is what the call did
render_returns(runs) ==
    /\ last' = [op |-> "render", rng |-> rng, ret |-> runs[0].image,
                writes |-> runs[0].writes, rng_out |-> runs[0].rng,
                alone |-> [i \in 1..(camera.w * camera.h) |-> runs[i].writes[1].color],
                before |-> render_before, found |-> found_before]
    /\ rng' = runs[0].rng

\* one Camera::render call
Render ==
    /\ camera.w * camera.h <= MaxPixels
    /\ render_returns(render_runs(camera, rng))
    /\ UNCHANGED <<unit, arg, camera>>
    /\ scene_borrowed

NextImage ==
    \/ RenderAddPlane \/ RenderAddSphereLight \/ SetSphereLightSamples
    \/ FindIntersection \/ Render

SpecImage == InitImage /\ [][NextImage]_vars

---------------------------------------------------------------------------
(* Properties of the scene (Spec) *)

\* the per-shape results for a ray, <<material id, Intersection>>, that exist
Hits(origin, dir) ==
    LET all == {<<spheres[j][1], Sphere_ray_intersect(spheres[j][2], origin, dir)>> :
                    j \in 1..Len(spheres)}
               \cup
               {<<planes[j][1], Plane_ray_intersect(planes[j][2], origin, dir)>> :
                    j \in 1..Len(planes)}
    IN  {h \in all : RGe(h[2].dist2, Zero)}

\* the call that stored the shape list entry <<id, shape>> under the name op
StoredBy(op, entry) ==
    \E i \in 1..Len(calls) :
        /\ calls[i].op = op
        /\ calls[i].ret = entry[1]
        /\ calls[i].shape = entry[2]
        /\ entry[1] < Len(materials)
        /\ materials[entry[1] + 1] = calls[i].material

\* C1: the add_sphere/add_plane calls returned 0, 1, 2, ... in call order,
\* whatever lights were added in between, and every stored <<id, shape>> has
\* id < len(materials) with materials[id] the material passed with that shape.
C1_MaterialIds ==
    /\ \A i \in 1..Len(calls) : calls[i].ret = i - 1
    /\ Len(materials) = Len(calls)
    /\ \A j \in 1..Len(spheres) : StoredBy("add_sphere", spheres[j])
    /\ \A j \in 1..Len(planes) : StoredBy("add_plane", planes[j])
    /\ last.op \in {"add_sphere", "add_plane"} => last.ret = Len(materials) - 1

\* a plane, a light and then a sphere with another material: the sphere got id 1
C1_Witness ==
    /\ Len(planes) = 1 /\ Len(spheres) = 1
    /\ Len(point_lights) + Len(sphere_lights) = 1
    /\ last = [op |-> "add_sphere", ret |-> 1]
    /\ materials[1] # materials[2]

\* C2: when some sphere or plane yields an existing intersection,
\* find_intersection returns an existing intersection at the least of the
\* existing per-shape distances, with the material id of a shape at that distance.
C2_NearestHit ==
    last.op = "find_intersection" =>
        LET H == Hits(last.origin, last.dir)
        IN  H # {} =>
                /\ RGe(last.ret[1].dist2, Zero)
                /\ \A h \in H : RLe(last.ret[1].dist2, h[2].dist2)
                /\ \E h \in H : h[2] = last.ret[1] /\ h[1] = last.ret[2]

\* three shapes are hit at three distances and the nearest was not added first
C2_Witness ==
    /\ last.op = "find_intersection"
    /\ Cardinality({h[2].dist2 : h \in Hits(last.origin, last.dir)}) = 3
    /\ last.ret[2] > 0

\* C3: find_intersection returns the sentinel Intersection::no() with material
\* id 0 exactly when no sphere and no plane yields an existing intersection
\* (so also for the empty scene).
C3_SentinelIffNoHit ==
    last.op = "find_intersection" =>
        LET H == Hits(last.origin, last.dir)
        IN  /\ H = {} => last.ret = <<no, 0>> /\ ~RGe(last.ret[1].dist2, Zero)
            /\ H # {} => last.ret[1] # no /\ RGe(last.ret[1].dist2, Zero)

\* a ray that misses all three shapes of a scene
C3_Witness ==
    /\ last.op = "find_intersection"
    /\ Len(spheres) + Len(planes) = 3
    /\ Len(spheres) > 0 /\ Len(planes) > 0
    /\ last.ret = <<no, 0>>

---------------------------------------------------------------------------
(* Properties of the ordering of Intersections (SpecOrd) *)

\* C4: for Intersections A and B that both exist, A < B exactly when
\* A.dist2 < B.dist2; when exactly one exists, the existing one is less than
\* the non-existent one whatever the two distance values are.
C4_Ordering ==
    last.op = "Intersection::partial_cmp" =>
        LET a == arg.a.dist2
            b == arg.b.dist2
            ea == RGe(a, Zero)
            eb == RGe(b, Zero)
        IN  /\ ea /\ eb => (last.lt <=> RLt(a, b)) /\ (last.gt <=> RLt(b, a))
            /\ ea /\ ~eb => last.lt /\ ~last.gt /\ last.ord = "Less"
            /\ ~ea /\ eb => last.gt /\ ~last.lt /\ last.ord = "Greater"

\* an existing intersection at distance 2 is less than a non-existent one at -2
C4_Witness ==
    /\ last.op = "Intersection::partial_cmp"
    /\ arg.a.dist2 = I(2) /\ arg.b.dist2 = I(-2)
    /\ last.lt

\* C5 (as claimed): every Intersection for which exists() is true has a
\* strictly positive distance, so exists() is false for distance exactly zero.
C5_ExistsOnlyPositive ==
    last.op = "Intersection::partial_cmp" =>
        /\ last.a_exists => RGt(arg.a.dist2, Zero)
        /\ last.b_exists => RGt(arg.b.dist2, Zero)

\* the spheres, by their place in self.spheres, whose intersection with the
\* last find_intersection call's ray exists at the squared distance d
SpheresAt(d) ==
    {j \in 1..Len(spheres) :
        LET i == Sphere_ray_intersect(spheres[j][2], last.origin, last.dir)
        IN  exists(i) /\ i.dist2 = d}

\* the planes, by their place in self.planes, hit at the squared distance d
PlanesAt(d) ==
    {j \in 1..Len(planes) :
        LET i == Plane_ray_intersect(planes[j][2], last.origin, last.dir)
        IN  exists(i) /\ i.dist2 = d}

\* the least member of a set of numbers that is not empty
Least(S) == CHOOSE j \in S : \A k \in S : j <= k

\* C26: the distance find_intersection returns is the least distance of the set
\* of shapes hit, whatever order they were added in; of the shapes hit at that
\* distance it returns the id of the earliest-added sphere if a sphere is among
\* them, and of the earliest-added plane otherwise
C26_TieGoesToFirst ==
    last.op = "find_intersection" /\ Hits(last.origin, last.dir) # {}
        => /\ \A h \in Hits(last.origin, last.dir) : RLe(last.ret[1].dist2, h[2].dist2)
           /\ SpheresAt(last.ret[1].dist2) \cup PlanesAt(last.ret[1].dist2) # {}
           /\ IF SpheresAt(last.ret[1].dist2) # {}
              THEN last.ret[2] = spheres[Least(SpheresAt(last.ret[1].dist2))][1]
              ELSE last.ret[2] = planes[Least(PlanesAt(last.ret[1].dist2))][1]

\* a plane added first and then two spheres, all three hit at the same
\* distance: the id returned is that of the first sphere
C26_Witness ==
    /\ last.op = "find_intersection"
    /\ Cardinality(SpheresAt(last.ret[1].dist2)) = 2
    /\ Cardinality(PlanesAt(last.ret[1].dist2)) = 1
    /\ planes[1][1] = 0
    /\ last.ret[2] = 1

---------------------------------------------------------------------------
(* Properties of Sphere::ray_intersect and Plane::ray_intersect (SpecShape) *)

\* the sphere call's vector from the ray origin to the center
ToCenter == VSub(arg.self.center, arg.origin)

\* the center lies along the ray direction, in front of the origin
Along == cross(ToCenter, arg.dir) = VZero /\ RGt(dot(ToCenter, arg.dir), Zero)

\* (d - r)^2 for a distance d given by its square, when d is rational
DMinusR2(d2, r) == LET d == RSqrt(d2) IN RMul(RSub(d, r), RSub(d, r))

IsSquare(x) == RMul(RSqrt(x), RSqrt(x)) = x

\* d - r >= 0.001, the square root of the guard 1E-6, for d given by its square
ClearOfGuard(d2, r) ==
    LET lim == RAdd(r, <<unit, 1000>>) IN RGe(d2, RMul(lim, lim))

\* C6 (as claimed): for a sphere of radius r whose center lies at distance
\* d > r along the ray direction, ray_intersect returns an existing
\* intersection with dist2 = (d - r)^2.
C6_AlongRayAsClaimed ==
    last.op = "Sphere::ray_intersect" =>
        LET d2 == magnitude2(ToCenter)
            r == arg.self.radius
        IN  Along /\ RGt(d2, RMul(r, r)) =>
                /\ RGe(last.ret.dist2, Zero)
                /\ IsSquare(d2) => last.ret.dist2 = DMinusR2(d2, r)

\* C6 (amended): the same with d - r >= 0.001; with 0 < d - r < 0.001 the hit
\* falls under the guard dist2 < 1E-6 and the sentinel is returned.
C6_AlongRay ==
    last.op = "Sphere::ray_intersect" =>
        LET d2 == magnitude2(ToCenter)
            r == arg.self.radius
        IN  Along /\ RGt(d2, RMul(r, r)) =>
                IF ClearOfGuard(d2, r)
                THEN /\ RGe(last.ret.dist2, Zero)
                     /\ IsSquare(d2) => last.ret.dist2 = DMinusR2(d2, r)
                ELSE last.ret = no

\* the example of the claim: d = 2, r = 1 gives dist2 = 1
C6_Witness ==
    /\ last.op = "Sphere::ray_intersect"
    /\ unit = 1
    /\ Along
    /\ magnitude2(ToCenter) = I(4) /\ arg.self.radius = I(1)
    /\ last.ret.dist2 = I(1)

\* the two calls, with dir and with k * dir, agree on existence and on dist2
SameHit(r1, r2) ==
    /\ RGe(r1.dist2, Zero) <=> RGe(r2.dist2, Zero)
    /\ RGe(r1.dist2, Zero) => r1.dist2 = r2.dist2

\* C7 (as claimed): for every shape, origin, dir and k > 0, ray_intersect(origin,
\* dir) and ray_intersect(origin, k * dir) both exist or both do not, and have
\* the same dist2.
C7_ScaleFreeAsClaimed ==
    last.op \in {"Sphere::ray_intersect", "Plane::ray_intersect"} =>
        SameHit(last.ret, last.ret_k)

\* the plane's two guards decide alike for dir and for k * dir
SameGuards ==
    LET dp == dot(arg.dir, arg.self.normal)
        dpk == dot(VScale(arg.dir, arg.k), arg.self.normal)
        pp == dot(VSub(arg.self.point, arg.origin), arg.self.normal)
    IN  /\ abs_diff_eq(dp, Zero) <=> abs_diff_eq(dpk, Zero)
        /\ ~abs_diff_eq(dp, Zero) =>
               (RLt(RDiv(pp, dp), EPS_1E6) <=> RLt(RDiv(pp, dpk), EPS_1E6))

\* C7 (amended): the same for every sphere, and for every plane for which the
\* two guards of Plane::ray_intersect (|dot(dir, normal)| <= f32::EPSILON and
\* ratio < 1E-6) decide alike for dir and for k * dir.
C7_ScaleFree ==
    /\ last.op = "Sphere::ray_intersect" => SameHit(last.ret, last.ret_k)
    /\ last.op = "Plane::ray_intersect" /\ SameGuards => SameHit(last.ret, last.ret_k)

\* a ray hits a plane at the scale of the epsilons, with dir and with k * dir
C7_Witness ==
    /\ last.op = "Plane::ray_intersect"
    /\ unit = 3000
    /\ arg.dir = V3(1, 1, 1)
    /\ RGe(last.ret.dist2, Zero) /\ last.ret.dist2 = last.ret_k.dist2

\* C8: when the squared distance from the center to the ray's line exceeds
\* radius^2, Sphere::ray_intersect returns the sentinel: dist2 is negative and
\* exists() is false.
C8_Miss ==
    last.op = "Sphere::ray_intersect" /\ arg.dir # VZero =>
        LET c == cross(ToCenter, arg.dir)
            r == arg.self.radius
        IN  RGt(magnitude2(c), RMul(RMul(r, r), magnitude2(arg.dir))) =>
                /\ last.ret = no
                /\ RLt(last.ret.dist2, Zero)
                /\ ~RGe(last.ret.dist2, Zero)

\* a sphere in front of the origin that the ray passes by
C8_Witness ==
    /\ last.op = "Sphere::ray_intersect"
    /\ RGt(dot(ToCenter, arg.dir), Zero)
    /\ RGt(magnitude2(cross(ToCenter, arg.dir)),
           RMul(RMul(arg.self.radius, arg.self.radius), magnitude2(arg.dir)))
    /\ last.ret = no

\* the point where the plane call's ray meets the plane
Meet ==
    LET dp == dot(arg.dir, arg.self.normal)
        pp == dot(VSub(arg.self.point, arg.origin), arg.self.normal)
    IN  VAdd(arg.origin, VScale(arg.dir, RDiv(pp, dp)))

\* the result is the hit at Meet, which lies on the plane
HitsAtMeet(ret) ==
    /\ RGe(ret.dist2, Zero)
    /\ dot(VSub(Meet, arg.self.point), arg.self.normal) = Zero
    /\ ret.dist2 = magnitude2(VSub(Meet, arg.origin))

\* C9 (as claimed): Plane::ray_intersect returns the sentinel when
\* dot(dir, normal) is zero or the ray parameter is non-positive; otherwise it
\* returns an existing intersection whose dist2 is the squared distance from
\* the origin to the point where the ray meets the plane, the same for every
\* magnitude of the normal.
C9_PlaneAsClaimed ==
    last.op = "Plane::ray_intersect" =>
        LET dp == dot(arg.dir, arg.self.normal)
            pp == dot(VSub(arg.self.point, arg.origin), arg.self.normal)
        IN  IF dp = Zero \/ RLe(RDiv(pp, dp), Zero)
            THEN last.ret = no
            ELSE HitsAtMeet(last.ret) /\ SameHit(last.ret, last.ret_n)

\* C9 (amended): the sentinel is returned when |dot(dir, normal)| <= f32::EPSILON
\* or the ray parameter is below 1E-6; otherwise the result exists with dist2
\* the squared distance from the origin to the meeting point, the same for the
\* normal multiplied by k provided |dot(dir, k * normal)| > f32::EPSILON too.
C9_Plane ==
    last.op = "Plane::ray_intersect" =>
        LET dp == dot(arg.dir, arg.self.normal)
            dpn == dot(arg.dir, VScale(arg.self.normal, arg.k))
            pp == dot(VSub(arg.self.point, arg.origin), arg.self.normal)
        IN  IF abs_diff_eq(dp, Zero) \/ RLt(RDiv(pp, dp), EPS_1E6)
            THEN last.ret = no
            ELSE /\ HitsAtMeet(last.ret)
                 /\ ~abs_diff_eq(dpn, Zero) => SameHit(last.ret, last.ret_n)

\* the example of the claim: normals (0,0,-1) and (0,0,-2) both give dist2 = 1
C9_Witness ==
    /\ last.op = "Plane::ray_intersect"
    /\ unit = 1
    /\ arg.self = Plane_new(V3(0, 0, 1), V3(0, 0, -1)) /\ arg.k = I(2)
    /\ arg.origin = V3(0, 0, 0) /\ arg.dir = V3(0, 0, 1)
    /\ last.ret.dist2 = I(1) /\ last.ret_n.dist2 = I(1)

\* C10: for a ray whose origin lies strictly inside the sphere,
\* Sphere::ray_intersect returns a non-existent intersection whatever the
\* direction (Intersection::no() for every direction but the zero vector).
C10_OriginInside ==
    last.op = "Sphere::ray_intersect" =>
        LET r == arg.self.radius
        IN  RLt(magnitude2(ToCenter), RMul(r, r)) =>
                /\ ~RGe(last.ret.dist2, Zero)
                /\ arg.dir # VZero => last.ret = no

\* the origin is inside and the ray points towards the center's side
C10_Witness ==
    /\ last.op = "Sphere::ray_intersect"
    /\ RLt(magnitude2(ToCenter), RMul(arg.self.radius, arg.self.radius))
    /\ RGt(dot(ToCenter, arg.dir), Zero)
    /\ last.ret = no

\* C11 (as claimed): every existing Intersection returned by
\* Sphere::ray_intersect or Plane::ray_intersect has a normal facing the side
\* of the ray's origin: dot(normal, dir) <= 0.
C11_NormalFacesOriginAsClaimed ==
    last.op \in {"Sphere::ray_intersect", "Plane::ray_intersect"} =>
        (RGe(last.ret.dist2, Zero) => RLe(dot(last.ret.normal, arg.dir), Zero))

\* C11 (amended): a sphere's existing Intersection has dot(normal, dir) <= 0;
\* a plane's existing Intersection carries the plane's own normal, not
\* flipped, so dot(normal, dir) < 0 exactly when the origin lies on the side
\* the plane's normal points to, and dot(normal, dir) > 0 otherwise.
C11_NormalFacesOrigin ==
    /\ last.op = "Sphere::ray_intersect" =>
           (RGe(last.ret.dist2, Zero) => RLe(dot(last.ret.normal, arg.dir), Zero))
    /\ last.op = "Plane::ray_intersect" =>
           (RGe(last.ret.dist2, Zero) =>
                /\ last.ret.normal = arg.self.normal
                /\ RLt(dot(last.ret.normal, arg.dir), Zero)
                       <=> RGt(dot(VSub(arg.origin, arg.self.point), arg.self.normal), Zero)
                /\ RGt(dot(last.ret.normal, arg.dir), Zero)
                       <=> RLt(dot(VSub(arg.origin, arg.self.point), arg.self.normal), Zero))

\* a sphere hit by a ray that does not pass through its center
C11_Witness ==
    /\ last.op = "Sphere::ray_intersect"
    /\ RGe(last.ret.dist2, Zero)
    /\ cross(ToCenter, arg.dir) # VZero
    /\ RLt(dot(last.ret.normal, arg.dir), Zero)

\* C12 (as claimed): every existing Intersection returned by
\* Sphere::ray_intersect or Plane::ray_intersect has a normal of unit length
\* (unit grid steps, squared unit * unit).
C12_UnitNormal ==
    last.op \in {"Sphere::ray_intersect", "Plane::ray_intersect"} =>
        (RGe(last.ret.dist2, Zero) => magnitude2(last.ret.normal) = I(unit * unit))

\* the point at the distance whose square is dist2 along the Unit direction
PointAtSquare(dist2) == VAdd(arg.origin, VScale(arg.dir, RSqrt(dist2)))

\* C13 (as claimed): SphereN::ray_intersect and PlaneN::ray_intersect return
\* in IntersectionN.dist a negative value if there is no intersection, and
\* otherwise the square of the distance to the intersection: the point at that
\* distance along the ray lies on the shape.
C13_DistIsSquare ==
    /\ last.op = "SphereN::ray_intersect" =>
           \/ RLt(last.ret.dist, Zero)
           \/ ~IsSquare(last.ret.dist)
           \/ magnitude2(VSub(PointAtSquare(last.ret.dist), arg.self.center))
                  = arg.self.radius2
    /\ last.op = "PlaneN::ray_intersect" =>
           \/ RLt(last.ret.dist, Zero)
           \/ ~IsSquare(last.ret.dist)
           \/ dot(VSub(PointAtSquare(last.ret.dist), arg.self.point), arg.self.normal)
                  = Zero

---------------------------------------------------------------------------
(* Claims about shading, checked in SpecRender *)

\* the last call was a ray_color whose primary ray hit a shape
Shaded == last.op = "ray_color" /\ last.did.hit /\ ~last.did.panic

\* the different turns of the sampling loops of the last ray_color call
Turns == {last.did.turns[i] : i \in 1..Len(last.did.turns)}

\* the shadow ray of a turn, cast again from the hit point the call computed
ShadowHit(t) ==
    find_intersection(VAdd(last.did.point, VScale(last.did.normal, Len1(SHADOW_BIAS))),
                      normalize(t.light_vec))[1]

\* the shadow ray hits a shape strictly before the sampled light point
Shadowed(t) == exists(ShadowHit(t)) /\ RLt(ShadowHit(t).dist2, magnitude2(t.light_vec))

\* the sampled light point is not on the side the normal points to
OtherSide(t) == RLe(dot(last.did.normal, normalize(t.light_vec)), EPS_1E6)

LightOfTurn(i) ==
    IF i <= Len(point_lights) THEN i
    ELSE Len(point_lights) + 1 + (i - Len(point_lights) - 1) \div sphere_light_samples

\* C15: a ray_color call whose primary ray hits a shape draws exactly one
\* sample from each point light and sphere_light_samples samples from each
\* sphere light (the value last set, 100 by default), the point lights first,
\* with one shadow ray per sample: P + S * sphere_light_samples shadow rays
\* after the one primary ray, and as many draws from the generator as there are
\* sphere light samples.
C15_SamplesPerLight ==
    /\ last.op = "none" => sphere_light_samples = 100
    /\ last.op = "set_sphere_light_samples" => sphere_light_samples = last.value
    /\ Shaded =>
           /\ Len(last.did.turns)
                  = Len(point_lights) + Len(sphere_lights) * sphere_light_samples
           /\ \A i \in 1..Len(last.did.turns) :
                  IF i <= Len(point_lights)
                  THEN /\ last.did.turns[i].light = "PointLight"
                       /\ last.did.turns[i].light_vec
                              = VSub(point_lights[LightOfTurn(i)].position, last.did.point)
                  ELSE last.did.turns[i].light = "SphereLight"
           /\ last.did.rng
                  = (last.rng + Len(sphere_lights) * sphere_light_samples) % Len(RngStream)

\* a call that shades a hit under one point light and one sphere light with
\* sphere_light_samples set to 3: four samples, the point light's first
C15_Witness ==
    /\ Shaded
    /\ Len(point_lights) = 1 /\ Len(sphere_lights) = 1
    /\ sphere_light_samples = 3
    /\ Len(last.did.turns) = 4
    /\ last.did.turns[1].light = "PointLight"
    /\ last.did.turns[4].light = "SphereLight"

\* C16: when the primary ray hits nothing, ray_color returns black without
\* indexing materials and without drawing from the generator; and no ray_color
\* call on a scene built by the add methods (the empty scene included) indexes
\* materials out of bounds.
C16_BackgroundIsBlack ==
    last.op = "ray_color" =>
        /\ ~exists(find_intersection(last.origin, last.dir)[1]) =>
               /\ last.ret = <<0, 0, 0>>
               /\ last.did.reads = <<>>
               /\ last.did.turns = <<>>
               /\ last.did.rng = last.rng
        /\ ~last.did.panic
        /\ \A i \in 1..Len(last.did.reads) : last.did.reads[i] < Len(materials)

\* a ray that misses the floor of a scene with a sphere light, and so leaves
\* the generator where it was
C16_Witness ==
    /\ last.op = "ray_color"
    /\ Len(planes) = 1 /\ Len(sphere_lights) = 1
    /\ ~exists(find_intersection(last.origin, last.dir)[1])
    /\ last.ret = <<0, 0, 0>>
    /\ last.did.rng = last.rng

---------------------------------------------------------------------------
(* Claims about the colour conversion, checked in SpecColor *)

\* C17: the conversion of a colour channel to 8 bits clamps: the channel
\* written by ray_color for material.color[i] * illumination, and by
\* Color::into for a component, lies in 0..255, is 255 for a value at or
\* above 1, is 0 for a value below 0, and does not decrease when the value
\* grows.
C17_ChannelClamps ==
    last.op \in {"channel", "into"} =>
        /\ last.ret_lo \in 0..255 /\ last.ret_hi \in 0..255
        /\ RGe(last.hi, I(1)) => last.ret_hi = 255
        /\ RLt(last.lo, Zero) => last.ret_lo = 0
        /\ RLe(last.lo, last.hi) => last.ret_lo <= last.ret_hi

\* a ray_color channel computed for a negative value and for a value above 1
C17_Witness ==
    /\ last.op = "channel"
    /\ RLt(last.lo, Zero) /\ last.ret_lo = 0
    /\ RGt(last.hi, I(1)) /\ last.ret_hi = 255

---------------------------------------------------------------------------
(* Claims about shading, checked in SpecRender (continued) *)

\* the lights of the scene, the point lights first
NumLights == Len(point_lights) + Len(sphere_lights)

\* light j gave at least one sample of the last call that was neither occluded
\* nor on the other side of the surface
LitBy(j) ==
    \E i \in 1..Len(last.did.turns) :
        LightOfTurn(i) = j /\ last.did.turns[i].skipped = "no"

\* C19 (as claimed): raising the intensity of one light that lights the hit
\* point decreases neither the illumination ray_color accumulates nor any
\* channel of the colour it returns.
C19_BrighterNeverDarkerAsClaimed ==
    Shaded =>
        \A j \in 1..NumLights :
            LitBy(j) =>
                /\ ~RLt(last.brighter[j].illumination, last.did.illumination)
                /\ \A c \in 1..3 : last.brighter[j].color[c] >= last.did.color[c]

\* C19 (amended): raising the intensity of one light that lights the hit point
\* does not decrease the illumination ray_color accumulates, and does not
\* decrease a channel of the returned colour whose material colour component
\* is not negative.
C19_BrighterNeverDarker ==
    Shaded =>
        \A j \in 1..NumLights :
            LitBy(j) =>
                /\ ~RLt(last.brighter[j].illumination, last.did.illumination)
                /\ \A c \in 1..3 :
                       RGe(materials[last.did.reads[1] + 1].color[c], Zero) =>
                           last.brighter[j].color[c] >= last.did.color[c]

\* a call lit by a light whose raise makes the illumination and a colour
\* channel strictly greater
C19_Witness ==
    /\ Shaded
    /\ \E j \in 1..NumLights :
           /\ LitBy(j)
           /\ RGt(last.brighter[j].illumination, last.did.illumination)
           /\ last.brighter[j].color[1] > last.did.color[1]

---------------------------------------------------------------------------
(* Properties of the Camera builder (SpecCamera) *)

\* the camera built from Camera::new by one call of each setter, in the order
\* of the source, with the values last given
Configured ==
    set_dimensions(set_fov(set_up(set_target(set_eye(Camera_new, arg.eye), arg.target),
                                  arg.up), arg.fov), arg.w, arg.h)

\* the derived fields of the camera agree with its primary ones
DerivedAgree ==
    /\ camera.w_half = camera.w \div 2
    /\ camera.h_half = camera.h \div 2
    /\ camera.scale = scale_from_dims(camera.w, camera.horizontal_fov)
    /\ camera.view = create_view_transform(camera.eye, camera.target, camera.up)

\* v points the way d does
SameDirection(v, d) == cross(v, d) = VZero /\ RGt(dot(v, d), Zero)

\* the last call asked for the pixel in the middle of the image
MiddlePixel ==
    last.op = "pixel_ray" /\ last.x = camera.w \div 2 /\ last.y = camera.h \div 2

\* the view is defined: the eye is not the target and up is not along the view
ViewDefined == cross(camera.up, VSub(camera.target, camera.eye)) # VZero

\* C22 as claimed: after any sequence of set_* calls the derived fields agree
\* with the primary ones, pixel_ray is that of the camera configured with the
\* same final values in the order of the source, and the pixel (w/2, h/2) maps
\* to the direction from eye to target
C22_BuilderConsistentAsClaimed ==
    /\ DerivedAgree
    /\ camera = Configured
    /\ last.op = "pixel_ray" => last.ret = pixel_ray(Configured, last.x, last.y)
    /\ MiddlePixel => SameDirection(last.ret, VSub(camera.target, camera.eye))

\* C22 amended: the derived fields agree, the camera and its pixel rays do not
\* depend on the order of the set_* calls, and the pixel (w/2, h/2) maps to the
\* direction from eye to target when eye and target differ and up is not along
\* the line through them
C22_BuilderConsistent ==
    /\ DerivedAgree
    /\ camera = Configured
    /\ last.op = "pixel_ray" => last.ret = pixel_ray(Configured, last.x, last.y)
    /\ MiddlePixel /\ ViewDefined
           => SameDirection(last.ret, VSub(camera.target, camera.eye))

\* every setter has been given a value that is not the one of Camera::new, and
\* the middle pixel's ray points from the eye to the target
C22_Witness ==
    /\ MiddlePixel
    /\ arg.eye # Given.eye /\ arg.target # Given.target /\ arg.up # Given.up
    /\ arg.fov # Given.fov /\ arg.w # Given.w
    /\ ViewDefined
    /\ SameDirection(last.ret, VSub(camera.target, camera.eye))

---------------------------------------------------------------------------
(* Properties of Camera::render (SpecImage) *)

\* the cells of the camera's image
Cells == (0..(camera.w - 1)) \X (0..(camera.h - 1))

\* the writes of the last render that went to cell
WritesTo(cell) ==
    {i \in 1..Len(last.writes) : <<last.writes[i].x, last.writes[i].y>> = cell}

WrittenOnce ==
    /\ Len(last.writes) = camera.w * camera.h
    /\ \A cell \in Cells :
           /\ Cardinality(WritesTo(cell)) = 1
           /\ \A i \in WritesTo(cell) : last.ret[cell] = last.writes[i].color

\* the colour the i-th cell written gets when it is rendered alone from the
\* state r of the generator
AloneFrom(i, r) ==
    render_cells(camera, r, <<<<last.writes[i].x, last.writes[i].y>>>>).writes[1].color

\* C20 as claimed: render writes every cell of the image exactly once, and the
\* colour written to a cell is the one the cell gets when it is rendered alone
\* (it does not depend on the cells rendered before it or on their draws)
C20_NoCrossPixelDependency ==
    last.op = "render"
        => /\ WrittenOnce
           /\ \A i \in 1..Len(last.writes) : last.writes[i].color = last.alone[i]

\* C20 amended: render writes every cell exactly once, and the colour written
\* to a cell depends on the scene, the cell's ray and the state the generator
\* is in when the cell's turn comes, which is the only thing the cells before
\* it have a part in
C20_DependsOnGeneratorOnly ==
    last.op = "render"
        => /\ WrittenOnce
           /\ \A i \in 1..Len(last.writes) :
                  /\ last.writes[i].color = AloneFrom(i, last.writes[i].rng)
                  /\ last.writes[i].rng = last.rng
                         => last.writes[i].color = last.alone[i]

\* a render in which the cells before a cell moved the generator, and the cell
\* got another colour than it gets when rendered first
C20_Witness ==
    /\ last.op = "render"
    /\ \E i \in 1..Len(last.writes) :
           /\ last.writes[i].rng # last.rng
           /\ last.writes[i].color # last.alone[i]
           /\ last.writes[i].color = AloneFrom(i, last.writes[i].rng)

---------------------------------------------------------------------------
(* More properties of Sphere::ray_intersect (SpecShape) *)

\* C23: Sphere::ray_intersect returns a result that does not exist whenever
\* dot(center - origin, dir) <= 0, the dot product exactly zero included; for a
\* direction that is not the zero vector the result is Intersection::no()
C23_CenterNotAhead ==
    last.op = "Sphere::ray_intersect" /\ RLe(dot(ToCenter, arg.dir), Zero)
        => /\ ~exists(last.ret)
           /\ arg.dir # VZero => last.ret = no

\* the dot product is exactly zero and the origin lies inside the sphere: the
\* call passes the test p < 0. and the test ray_dist2 > r2, and returns no()
C23_Witness ==
    /\ last.op = "Sphere::ray_intersect"
    /\ arg.dir # VZero
    /\ dot(ToCenter, arg.dir) = Zero
    /\ RLt(magnitude2(ToCenter), RMul(arg.self.radius, arg.self.radius))
    /\ last.ret = no

---------------------------------------------------------------------------
(* More properties of Scene::ray_color (SpecRender) *)

\* the sum of what the turns lo..hi of the last ray_color call added, a turn
\* that was skipped counting as zero (added up by halves: the sum is exact)
RECURSIVE SumAdded(_, _)
SumAdded(lo, hi) ==
    IF lo > hi THEN Zero
    ELSE IF lo = hi
    THEN (IF last.did.turns[lo].skipped = "no" THEN last.did.turns[lo].added ELSE Zero)
    ELSE RAdd(SumAdded(lo, (lo + hi) \div 2), SumAdded((lo + hi) \div 2 + 1, hi))

\* the number of samples drawn from light j, the point lights counted first
SamplesOf(j) == IF j <= Len(point_lights) THEN 1 ELSE sphere_light_samples

\* the first turn of light j
FirstTurnOf(j) ==
    IF j <= Len(point_lights) THEN j
    ELSE Len(point_lights) + (j - Len(point_lights) - 1) * sphere_light_samples + 1

\* the arithmetic mean over all the samples drawn from light j
MeanOfLight(j) ==
    F32(RDiv(SumAdded(FirstTurnOf(j), FirstTurnOf(j) + SamplesOf(j) - 1), I(SamplesOf(j))))

\* the means of the lights 1..j, added up
RECURSIVE SumOfMeans(_)
SumOfMeans(j) == IF j = 0 THEN Zero ELSE RAdd(SumOfMeans(j - 1), MeanOfLight(j))

\* C24: for a sample count n >= 1 the illumination of a light is the sum of
\* the contributions of all n samples drawn, a skipped sample contributing 0,
\* divided by n; ray_color adds up these means
C24_MeanOverAllSamples ==
    Shaded /\ (sphere_light_samples >= 1 \/ Len(sphere_lights) = 0)
        => last.did.illumination = SumOfMeans(NumLights)

\* three samples of a sphere light, one of them skipped and one of them not:
\* the sum of two contributions is divided by three
C24_Witness ==
    /\ Shaded
    /\ Len(point_lights) = 0 /\ Len(sphere_lights) = 1 /\ sphere_light_samples = 3
    /\ Cardinality({i \in 1..3 : last.did.turns[i].skipped = "no"}) = 2
    /\ RGt(last.did.illumination, Zero)
    /\ last.did.illumination = F32(RDiv(SumAdded(1, 3), I(3)))

\* C25: a light sample on the other side of the surface
\* (dot(normal, light_dir) <= 1E-6) adds nothing to the total, neither a diffuse
\* nor a specular term
C25_OtherSideAddsNothing ==
    Shaded =>
        /\ \A t \in Turns : ~Shadowed(t) /\ OtherSide(t)
               => t.skipped = "other side" /\ t.added = Zero
        /\ \A j \in 1..NumLights :
               (\A i \in FirstTurnOf(j)..(FirstTurnOf(j) + SamplesOf(j) - 1) :
                    OtherSide(last.did.turns[i]) \/ Shadowed(last.did.turns[i]))
                   /\ SamplesOf(j) >= 1
                   => MeanOfLight(j) = Zero

\* a sample that is not occluded and lies on the other side of the surface, in a
\* call in which another sample adds light
C25_Witness ==
    /\ Shaded
    /\ \E t \in Turns : ~Shadowed(t) /\ OtherSide(t) /\ t.added = Zero
    /\ \E t \in Turns : t.skipped = "no" /\ RGt(t.added, Zero)

=============================================================================
